---- MODULE Spec2Model ----
(***************************************************************************)
(* A model of the git object store of cmd/mygit/git: Repository.Init and   *)
(* its cleanup closure, CatFile, WriteBlob, ReadTree, WriteTree, hashBlob  *)
(* and treeTable.                                                          *)
(*                                                                         *)
(* Strings and byte slices are sequences of byte values (0..255); a hash   *)
(* is the 40-byte lowercase hexadecimal rendering of a 20-byte digest.     *)
(***************************************************************************)
EXTENDS Integers, Sequences, FiniteSets, TLC

(***************************************************************************)
(* Bounds of the model.                                                    *)
(***************************************************************************)
MaxContentLen == 1      \* longest file content handed to WriteBlob / found in a directory
MaxObjects    == 2      \* objects the writers may put into .git/objects
MaxFixtures   == 1      \* object files copied into .git/objects from outside

Handles == {"r1", "r2"} \* Repository values created by NewRepository over the same root

(***************************************************************************)
(* Byte strings used by the code.                                          *)
(***************************************************************************)
NUL   == 0
SP    == 32
LF    == 10
BlobTag == <<98, 108, 111, 98>>            \* "blob"
TreeTag == <<116, 114, 101, 101>>          \* "tree"
FileMode == <<49, 48, 48, 54, 52, 52>>     \* "100644"
DirMode  == <<52, 48, 48, 48, 48>>         \* "40000"
DotGit   == <<46, 103, 105, 116>>          \* ".git"
NameA    == <<97>>                         \* "a"
NameB    == <<98>>                         \* "b"

HeadFileContents == "ref: refs/heads/master\n"
NoFile == "<no file>"

Min(a, b) == IF a < b THEN a ELSE b

\* fmt's %d of a non-negative integer
RECURSIVE Itoa(_)
Itoa(n) == IF n < 10 THEN <<48 + n>> ELSE Itoa(n \div 10) \o <<48 + (n % 10)>>

\* fmt's %x of one byte: two lowercase hexadecimal digits
HexDigit(n) == IF n < 10 THEN 48 + n ELSE 87 + n
Hex(b) == [k \in 1..(2 * Len(b)) |->
              IF k % 2 = 1 THEN HexDigit(b[(k + 1) \div 2] \div 16)
                           ELSE HexDigit(b[k \div 2] % 16)]

\* the sum of f[lo..hi], eight elements at a time
RECURSIVE SumRange(_, _, _)
SumRange(f, lo, hi) ==
    IF lo > hi THEN 0
    ELSE IF hi - lo = 7
    THEN f[lo] + f[lo + 1] + f[lo + 2] + f[lo + 3] + f[lo + 4] + f[lo + 5] + f[lo + 6] + f[hi]
    ELSE IF hi - lo < 7 THEN f[lo] + SumRange(f, lo + 1, hi)
    ELSE SumRange(f, lo, lo + 7) + SumRange(f, lo + 8, hi)

(***************************************************************************)
(* sha1.Sum: a 20-byte digest of the whole input.  SHA-1 itself is not     *)
(* computed; the digest is ten polynomial checksums of the input modulo a  *)
(* prime, each with its own multiplier and start value, written big-endian *)
(* in two bytes each.  It depends on every byte, on the order of the bytes *)
(* and on the length, as SHA-1 does.                                       *)
(***************************************************************************)
DigestPrime == 32749

RECURSIVE PowMod(_, _)
PowMod(m, k) ==
    IF k = 0 THEN 1
    ELSE LET r == PowMod(m, k \div 2)
             q == (r * r) % DigestPrime
         IN  IF k % 2 = 0 THEN q ELSE (q * m) % DigestPrime

\* acc := start; for each byte: acc = (acc * mult + byte + 1) mod DigestPrime
Poly(b, mult, start) ==
    LET n == Len(b)
        terms == [i \in 1..n |-> ((b[i] + 1) * PowMod(mult, n - i)) % DigestPrime]
    IN  (start * PowMod(mult, n) + SumRange(terms, 1, n)) % DigestPrime

Sum(b) ==
    LET h == [i \in 1..10 |-> Poly(b, 255 + 2 * i, i)]
    IN  [k \in 1..20 |-> IF k % 2 = 1 THEN h[(k + 1) \div 2] \div 256
                                      ELSE h[k \div 2] % 256]

(***************************************************************************)
(* compress/zlib.  The stream is modelled at the level of RFC 1950/1951    *)
(* with one stored block: a two-byte header, the block header, LEN and its *)
(* complement, the data, and the big-endian Adler-32 of the data.          *)
(***************************************************************************)
AdlerPrime == 65521
Adler(b) ==
    LET n  == Len(b)
        s1 == (1 + SumRange(b, 1, n)) % AdlerPrime
        s2 == (n + SumRange([i \in 1..n |-> (n - i + 1) * b[i]], 1, n)) % AdlerPrime
    IN  <<s2 \div 256, s2 % 256, s1 \div 256, s1 % 256>>

ZlibHeader == <<120, 1>>

\* zlib.NewWriter(f); w.Write(data); w.Close()
ZlibWrite(data) ==
    LET n == Len(data)
    IN  ZlibHeader
        \o <<1, n % 256, n \div 256, 255 - (n % 256), 255 - (n \div 256)>>
        \o data
        \o Adler(data)

\* zlib.NewReader(f) followed by reading the stream to its end
ZlibRead(z) ==
    IF Len(z) < 11 \/ SubSeq(z, 1, 2) # ZlibHeader \/ z[3] # 1
    THEN [ok |-> FALSE, data |-> <<>>]
    ELSE LET n    == z[4] + 256 * z[5]
             data == SubSeq(z, 8, 7 + n)
         IN  IF /\ z[6] = 255 - z[4]
                /\ z[7] = 255 - z[5]
                /\ Len(z) = 11 + n
                /\ SubSeq(z, 8 + n, 11 + n) = Adler(data)
             THEN [ok |-> TRUE, data |-> data]
             ELSE [ok |-> FALSE, data |-> <<>>]

(***************************************************************************)
(* Paths below .git/objects: path.Join(root, ".git/objects", hash[:2],     *)
(* hash[2:]) is the pair of the directory name and the file name.          *)
(***************************************************************************)
ObjectPath(hash) == <<SubSeq(hash, 1, 2), SubSeq(hash, 3, Len(hash))>>

\* IsValidHash with the comparison turned into a lower limit
IsValidHashAtLeast(hash) == Len(hash) >= 40

\* isValid := len([]byte(hash)) == 40
IsValidHash(hash) == Len(hash) = 40

\* hashBlob with the hash taken over the header alone
hashBlobOfHeader(content) ==
    LET header == BlobTag \o <<SP>> \o Itoa(Len(content)) \o <<NUL>>
    IN  [hash |-> Hex(Sum(header)), blob |-> header \o content]

(***************************************************************************)
(* hashBlob: the framed blob "blob <size>\x00<content>" and its hash.      *)
(***************************************************************************)
hashBlob(content) ==
    LET blob == BlobTag \o <<SP>> \o Itoa(Len(content)) \o <<NUL>> \o content
    IN  [hash |-> Hex(Sum(blob)), blob |-> blob]

(***************************************************************************)
(* The inputs of the operations: file contents, directories and hashes.    *)
(***************************************************************************)
ContentBytes == {NUL, 97}
Contents == UNION {[1..k -> ContentBytes] : k \in 0..MaxContentLen}

\* One entry of os.ReadDir: a regular file with its content, or a directory
\* with its own listing.
FileEntry(name, data) == [name |-> name, isDir |-> FALSE, data |-> data, sub |-> <<>>]
DirEntry(name, sub)   == [name |-> name, isDir |-> TRUE, data |-> <<>>, sub |-> sub]

\* Directories handed to WriteTree, as os.ReadDir lists them (sorted by file
\* name: ".git" < "a" < "b").
SubDirs == {<<>>, <<FileEntry(NameA, <<97>>)>>}
OptGit  == {<<>>, <<DirEntry(DotGit, <<>>)>>}
OptA    == {<<>>, <<FileEntry(NameA, <<97>>)>>} \cup {<<DirEntry(NameA, s)>> : s \in SubDirs}
OptB    == {<<>>, <<FileEntry(NameB, <<>>)>>}
Dirs    == {g \o a \o b : g \in OptGit, a \in OptA, b \in OptB}

(***************************************************************************)
(* treeTable: one entry per directory entry, in listing order; a directory *)
(* named .git is skipped.  TreeEntries is the list of entries appended,    *)
(* treeTable the bytes of the table.                                       *)
(***************************************************************************)
EntryBytes(e) == e.mode \o <<SP>> \o e.name \o <<NUL>> \o e.hash

RECURSIVE Flatten(_)
Flatten(es) == IF es = <<>> THEN <<>> ELSE EntryBytes(Head(es)) \o Flatten(Tail(es))

\* "100644 %s\x00%s" with the hash string hashBlob returns
FileHashField(data) == hashBlob(data).hash
\* "40000 %s\x00%x" with sha1.Sum of the string the recursive call returns
DirHashField(subTable) == Hex(Sum(subTable))

RECURSIVE TreeEntries(_)
TreeEntries(dir) ==
    IF dir = <<>> THEN <<>>
    ELSE LET e == Head(dir)
         IN  IF e.isDir
             THEN IF e.name = DotGit
                  THEN TreeEntries(Tail(dir))
                  ELSE <<[mode |-> DirMode, name |-> e.name,
                          hash |-> DirHashField(Flatten(TreeEntries(e.sub)))]>>
                       \o TreeEntries(Tail(dir))
             ELSE <<[mode |-> FileMode, name |-> e.name,
                     hash |-> FileHashField(e.data)]>>
                  \o TreeEntries(Tail(dir))

treeTable(dir) == Flatten(TreeEntries(dir))

\* WriteTree's output "tree <len>\x00<table>" and its hash
TreeObject(table) ==
    LET output == TreeTag \o <<SP>> \o Itoa(Len(table)) \o <<NUL>> \o table
    IN  [hash |-> Hex(Sum(output)), output |-> output]

\* The objects the writers compute and the streams they write, tabulated per
\* input (Tabulate(f) is f, evaluated once for all of its domain).
Tabulate(f) == CHOOSE g \in {f} : g = f
BlobOf == Tabulate([c \in Contents |->
              [hash |-> hashBlob(c).hash, blob |-> hashBlob(c).blob,
               stream |-> ZlibWrite(hashBlob(c).blob)]])
TreeOf == Tabulate([d \in Dirs |->
              [hash |-> TreeObject(treeTable(d)).hash,
               output |-> TreeObject(treeTable(d)).output,
               stream |-> ZlibWrite(TreeObject(treeTable(d)).output)]])

(***************************************************************************)
(* The object files of .git/objects: a function from paths to the bytes of *)
(* the file.                                                               *)
(***************************************************************************)
NoObjects == [p \in {} |-> <<>>]

\* os.MkdirAll of the directory, os.Create of the file (truncating it) and the
\* compressed stream in it once the deferred Close has run
Put(store, hash, stream) ==
    [p \in DOMAIN store \cup {ObjectPath(hash)} |->
        IF p = ObjectPath(hash) THEN stream ELSE store[p]]

StoredHashes(store) == {p[1] \o p[2] : p \in DOMAIN store}

(***************************************************************************)
(* bufio.Reader over the decompressed object.  An object is shorter than   *)
(* the reader's 4096-byte buffer, so the first fill holds all of it.       *)
(***************************************************************************)
\* the index of the first delim at or after from; 0 when ReadString reaches
\* the end of the input without finding it
IndexOf(buf, from, delim) ==
    LET at == {i \in from..Len(buf) : buf[i] = delim}
    IN  IF at = {} THEN 0 ELSE CHOOSE i \in at : \A j \in at : i <= j

\* strings.Join(names, "\n")
RECURSIVE Join(_)
Join(names) ==
    IF names = <<>> THEN <<>>
    ELSE IF Len(names) = 1 THEN names[1]
    ELSE names[1] \o <<LF>> \o Join(Tail(names))

\* sort.StringSlice(names) converts the slice to the type sort.StringSlice;
\* its Sort method is not called.
StringSlice(names) == names

\* br.Read(make([]byte, 20)) with avail bytes left: the number of bytes
\* consumed, or -1 for the error at the end of the input
ReadHash(avail) == IF avail = 0 THEN -1 ELSE Min(20, avail)

\* the loop of ReadTree from position pos (the next unread byte)
RECURSIVE ParseEntries(_, _, _)
ParseEntries(buf, pos, names) ==
    IF pos > Len(buf)
    THEN [err |-> "nil", names |-> names]                       \* Peek: io.EOF
    ELSE LET m == IndexOf(buf, pos, SP)
         IN  IF m = 0 THEN [err |-> "error reading mode", names |-> <<>>]
             ELSE LET n == IndexOf(buf, m + 1, NUL)
                  IN  IF n = 0 THEN [err |-> "error reading name", names |-> <<>>]
                      ELSE LET got == ReadHash(Len(buf) - n)
                           IN  IF got < 0
                               THEN [err |-> "error reading hash", names |-> <<>>]
                               ELSE ParseEntries(buf, n + got + 1,
                                                 Append(names, SubSeq(buf, m + 1, n - 1)))

\* ReadTree: what it returns, and the calls it makes on files below .git
ReadTreeResult(store, hash) ==
    IF ~IsValidHash(hash)
    THEN [ret |-> <<>>, err |-> "ErrInvalidHash", trace |-> <<>>]
    ELSE IF ObjectPath(hash) \notin DOMAIN store
    THEN [ret |-> <<>>, err |-> "failed to open file", trace |-> <<"Open">>]
    ELSE LET z   == ZlibRead(store[ObjectPath(hash)])
             buf == z.data
             p   == IndexOf(buf, 1, SP)
             q   == IndexOf(buf, p + 1, NUL)
             res == ParseEntries(buf, q + 1, <<>>)
         IN  IF ~z.ok
             THEN [ret |-> <<>>, err |-> "failed to read the contents", trace |-> <<"Open">>]
             ELSE IF p = 0
             THEN [ret |-> <<>>, err |-> "error reading type", trace |-> <<"Open">>]
             ELSE IF SubSeq(buf, 1, p) # TreeTag \o <<SP>>
             THEN [ret |-> <<>>, err |-> "expected type to be tree", trace |-> <<"Open">>]
             ELSE IF q = 0
             THEN [ret |-> <<>>, err |-> "error reading null byte", trace |-> <<"Open">>]
             ELSE IF res.err # "nil"
             THEN [ret |-> <<>>, err |-> res.err, trace |-> <<"Open">>]
             ELSE [ret |-> Join(StringSlice(res.names)) \o <<LF>>, err |-> "nil",
                   trace |-> <<"Open">>]

\* strings.Split(contents, "\x00")[1]: the bytes between the first NUL and the
\* next one (or the end)
SplitSecond(contents) ==
    LET p == IndexOf(contents, 1, NUL)
        q == IndexOf(contents, p + 1, NUL)
    IN  IF q = 0 THEN SubSeq(contents, p + 1, Len(contents))
        ELSE SubSeq(contents, p + 1, q - 1)

\* CatFile: what it returns, and the calls it makes on files below .git
CatFileResult(store, hash) ==
    IF ~IsValidHash(hash)
    THEN [ret |-> <<>>, err |-> "ErrInvalidHash", trace |-> <<>>]
    ELSE IF ObjectPath(hash) \notin DOMAIN store
    THEN [ret |-> <<>>, err |-> "object does not exist", trace |-> <<"Open">>]
    ELSE LET z == ZlibRead(store[ObjectPath(hash)])
         IN  IF ~z.ok
             THEN [ret |-> <<>>, err |-> "failed to read the contents", trace |-> <<"Open">>]
             ELSE IF IndexOf(z.data, 1, NUL) = 0
             THEN [ret |-> <<>>, err |-> "panic: index out of range", trace |-> <<"Open">>]
             ELSE [ret |-> SplitSecond(z.data), err |-> "nil", trace |-> <<"Open">>]

(***************************************************************************)
(* Object files that exist before the repository is used: the tests copy   *)
(* directories of a fixtures folder into .git/objects.  The fixtures are   *)
(* tree objects whose entries carry a raw 20-byte hash, every prefix of    *)
(* the payload of one of them, and one blob.                               *)
(***************************************************************************)
RawHash == Sum(hashBlob(<<97>>).blob)
EntryA  == [mode |-> FileMode, name |-> NameA, hash |-> RawHash]
EntryB  == [mode |-> FileMode, name |-> NameB, hash |-> RawHash]

WellFormedLists == {<<>>, <<EntryA>>, <<EntryB>>, <<EntryA, EntryB>>, <<EntryB, EntryA>>}
Prefixes(t)     == {SubSeq(t, 1, k) : k \in 0..Len(t)}
FixtureTables   == {Flatten(es) : es \in WellFormedLists} \cup Prefixes(Flatten(<<EntryB, EntryA>>))
FixtureObjects  ==
    {[hash |-> TreeObject(t).hash, stream |-> ZlibWrite(TreeObject(t).output)] : t \in FixtureTables}
        \cup {[hash |-> hashBlob(<<97>>).hash, stream |-> ZlibWrite(hashBlob(<<97>>).blob)]}

(***************************************************************************)
(* The state: the Repository values, the files below root/.git, and the    *)
(* last call with what it returned.                                        *)
(***************************************************************************)
VARIABLES
    initialized,   \* Repository.initialized of each handle
    gitDirs,       \* the directories .git, .git/objects, .git/refs that exist
    head,          \* the contents of .git/HEAD, or NoFile
    objects,       \* the object files below .git/objects
    op,            \* the last call
    arg,           \* its argument
    ret,           \* the string it returned
    err,           \* the error it returned ("nil" for none)
    fsTrace        \* the calls it made on files below root/.git

vars == <<initialized, gitDirs, head, objects, op, arg, ret, err, fsTrace>>

\* NewRepository(root) for each handle, over a root without .git
Init ==
    /\ initialized = [h \in Handles |-> FALSE]
    /\ gitDirs = {}
    /\ head = NoFile
    /\ objects = NoObjects
    /\ op = "NewRepository"
    /\ arg = <<>>
    /\ ret = <<>>
    /\ err = "nil"
    /\ fsTrace = <<>>

\* the list of directories without .git/objects
InitDirsWithoutObjects == {".git", ".git/refs"}

\* the list of directories without its last element
InitDirsWithoutRefs == {".git", ".git/objects"}

\* dirs := []string{".git", ".git/objects", ".git/refs"}
InitDirs == {".git", ".git/objects", ".git/refs"}

\* the test of the flag left out
NeverInitialized(h) == FALSE

\* if r.initialized
AlreadyInitialized(h) == initialized[h]

\* Repository.Init
InitRepo(h) ==
    /\ op' = "Init"
    /\ arg' = h
    /\ ret' = <<>>
    /\ IF AlreadyInitialized(h)
       THEN /\ err' = "ErrRepositoryAlreadyInitialized"
            /\ fsTrace' = <<>>
            /\ UNCHANGED <<initialized, gitDirs, head, objects>>
       ELSE /\ gitDirs' = gitDirs \cup InitDirs
            /\ head' = HeadFileContents
            /\ initialized' = [initialized EXCEPT ![h] = TRUE]
            /\ err' = "nil"
            /\ fsTrace' = <<"MkdirAll", "MkdirAll", "MkdirAll", "WriteFile">>
            /\ UNCHANGED objects

\* the cleanup closure Init returned: os.RemoveAll(root/.git).  A caller holds
\* it once it has called Init, which is when the handle is initialized.
Cleanup(h) ==
    /\ initialized[h]
    /\ op' = "cleanup"
    /\ arg' = h
    /\ ret' = <<>>
    /\ err' = "nil"
    /\ fsTrace' = <<"RemoveAll">>
    /\ gitDirs' = {}
    /\ head' = NoFile
    /\ objects' = NoObjects
    /\ UNCHANGED initialized

\* room in the store for an object of this hash
HasRoom(hash, max) ==
    ObjectPath(hash) \in DOMAIN objects \/ Cardinality(DOMAIN objects) < max

\* Repository.WriteBlob on a file with content c
WriteBlob(c) ==
    /\ HasRoom(BlobOf[c].hash, MaxObjects)
    /\ op' = "WriteBlob"
    /\ arg' = c
    /\ ret' = BlobOf[c].hash
    /\ err' = "nil"
    /\ fsTrace' = <<"MkdirAll", "Create">>
    /\ gitDirs' = gitDirs \cup {".git", ".git/objects"}
    /\ objects' = Put(objects, BlobOf[c].hash, BlobOf[c].stream)
    /\ UNCHANGED <<initialized, head>>

\* Repository.WriteBlob on a file name that does not exist: hashBlob fails
WriteBlobNoFile ==
    /\ op' = "WriteBlob"
    /\ arg' = <<>>
    /\ ret' = <<>>
    /\ err' = "failed to hash the file"
    /\ fsTrace' = <<>>
    /\ UNCHANGED <<initialized, gitDirs, head, objects>>

\* Repository.WriteTree on the directory d
WriteTree(d) ==
    /\ HasRoom(TreeOf[d].hash, MaxObjects)
    /\ op' = "WriteTree"
    /\ arg' = d
    /\ ret' = TreeOf[d].hash
    /\ err' = "nil"
    /\ fsTrace' = <<"MkdirAll", "Create">>
    /\ gitDirs' = gitDirs \cup {".git", ".git/objects"}
    /\ objects' = Put(objects, TreeOf[d].hash, TreeOf[d].stream)
    /\ UNCHANGED <<initialized, head>>

\* the hashes the callers pass: those of stored objects, a 40-character hash
\* of no object, the same with a character dropped or added, and "123"
MissingHash == Hex(Sum(<<>>))
HashArgs ==
    StoredHashes(objects)
        \cup {MissingHash, SubSeq(MissingHash, 1, 39), MissingHash \o <<48>>, <<49, 50, 51>>}

\* Repository.CatFile
CatFile(hash) ==
    /\ op' = "CatFile"
    /\ arg' = hash
    /\ LET res == CatFileResult(objects, hash)
       IN  ret' = res.ret /\ err' = res.err /\ fsTrace' = res.trace
    /\ UNCHANGED <<initialized, gitDirs, head, objects>>

\* Repository.ReadTree
ReadTree(hash) ==
    /\ op' = "ReadTree"
    /\ arg' = hash
    /\ LET res == ReadTreeResult(objects, hash)
       IN  ret' = res.ret /\ err' = res.err /\ fsTrace' = res.trace
    /\ UNCHANGED <<initialized, gitDirs, head, objects>>

\* cp -r fixtures/<hash[:2]> root/.git/objects, after Init
CopyFixture(f) ==
    /\ ".git/objects" \in gitDirs
    /\ HasRoom(f.hash, MaxFixtures)
    /\ op' = "cp"
    /\ arg' = f.hash
    /\ ret' = <<>>
    /\ err' = "nil"
    /\ fsTrace' = <<"cp">>
    /\ objects' = Put(objects, f.hash, f.stream)
    /\ UNCHANGED <<initialized, gitDirs, head>>

Next ==
    \/ \E h \in Handles : InitRepo(h)
    \/ \E h \in Handles : Cleanup(h)
    \/ \E c \in Contents : WriteBlob(c)
    \/ WriteBlobNoFile
    \/ \E d \in Dirs : WriteTree(d)
    \/ \E hash \in HashArgs : CatFile(hash)
    \/ \E hash \in HashArgs : ReadTree(hash)

Spec == Init /\ [][Next]_vars

\* The repository over fixture objects: Init, the copy of fixtures, and the
\* two readers.
NextFixture ==
    \/ \E h \in Handles : InitRepo(h)
    \/ \E f \in FixtureObjects : CopyFixture(f)
    \/ \E hash \in HashArgs : CatFile(hash)
    \/ \E hash \in HashArgs : ReadTree(hash)

SpecFixture == Init /\ [][NextFixture]_vars

(***************************************************************************)
(* Notions the properties are stated in.                                   *)
(***************************************************************************)
NoError == "nil"

\* the names of the direct children of a directory, the .git directory apart
ChildNames(dir) ==
    {dir[i].name : i \in {j \in 1..Len(dir) : ~(dir[j].isDir /\ dir[j].name = DotGit)}}

\* the lines of a listing: the byte strings that end at each newline; the
\* listing of no name is the lone newline
NamesIn(listing) ==
    LET ends == {i \in 1..Len(listing) : listing[i] = LF}
        start(i) == 1 + (IF \E j \in ends : j < i
                         THEN CHOOSE j \in ends : j < i /\ \A k \in ends : k < i => k <= j
                         ELSE 0)
    IN  IF listing = <<LF>> THEN {}
        ELSE {SubSeq(listing, start(i), i - 1) : i \in ends}

\* byte-wise lexicographic order
RECURSIVE LexLeq(_, _)
LexLeq(a, b) ==
    IF a = <<>> THEN TRUE
    ELSE IF b = <<>> THEN FALSE
    ELSE IF Head(a) # Head(b) THEN Head(a) < Head(b)
    ELSE LexLeq(Tail(a), Tail(b))

RECURSIVE InsertSorted(_, _)
InsertSorted(x, sorted) ==
    IF sorted = <<>> THEN <<x>>
    ELSE IF LexLeq(x, Head(sorted)) THEN <<x>> \o sorted
    ELSE <<Head(sorted)>> \o InsertSorted(x, Tail(sorted))

RECURSIVE SortNames(_)
SortNames(names) ==
    IF names = <<>> THEN <<>> ELSE InsertSorted(Head(names), SortNames(Tail(names)))

NamesOf(es) == [i \in 1..Len(es) |-> es[i].name]

\* the decompressed content of the object stored under a hash
Stored(store, hash) == ZlibRead(store[ObjectPath(hash)]).data

\* the bytes after the header "<type> <size>\x00" of an object
Payload(object) == SubSeq(object, IndexOf(object, 1, NUL) + 1, Len(object))

\* a payload is, from position pos on, one entry per child in order: the mode,
\* a space, the name, a null byte and then exactly 20 bytes
RECURSIVE IsEntryTable(_, _, _)
IsEntryTable(payload, pos, children) ==
    IF children = <<>> THEN pos = Len(payload) + 1
    ELSE LET e    == Head(children)
             lead == (IF e.isDir THEN DirMode ELSE FileMode) \o <<SP>> \o e.name \o <<NUL>>
         IN  /\ pos + Len(lead) + 20 <= Len(payload) + 1
             /\ SubSeq(payload, pos, pos + Len(lead) - 1) = lead
             /\ IsEntryTable(payload, pos + Len(lead) + 20, Tail(children))

\* the children of a directory that WriteTree records
Recorded(dir) == SelectSeq(dir, LAMBDA e : ~(e.isDir /\ e.name = DotGit))

\* the hashes of the objects a tree of the directory refers to: the blob of
\* every file and the tree of every subdirectory, at every level
RECURSIVE Referenced(_)
Referenced(dir) ==
    UNION {IF dir[i].isDir
           THEN {TreeObject(treeTable(dir[i].sub)).hash} \cup Referenced(dir[i].sub)
           ELSE {hashBlob(dir[i].data).hash}
           : i \in {j \in 1..Len(dir) : ~(dir[j].isDir /\ dir[j].name = DotGit)}}

\* the prefixes of a two-entry payload that end inside an entry
FullTable      == Flatten(<<EntryB, EntryA>>)
CompleteLens   == {0, Len(EntryBytes(EntryB)), Len(FullTable)}
TruncatedTables == {SubSeq(FullTable, 1, k) : k \in (0..Len(FullTable)) \ CompleteLens}

(***************************************************************************)
(* C1: WriteBlob on a file of content c followed by CatFile on the hash    *)
(* WriteBlob returned succeeds and returns exactly c.                      *)
(***************************************************************************)
C1_BlobRoundTrip ==
    [][(op = "WriteBlob" /\ err = NoError /\ op' = "CatFile" /\ arg' = ret)
         => (err' = NoError /\ ret' = arg)]_vars

(***************************************************************************)
(* C2: once Init has succeeded on a handle, every later Init on that       *)
(* handle returns ErrRepositoryAlreadyInitialized and changes no file      *)
(* below .git.                                                             *)
(***************************************************************************)
C2_SecondInitRejected ==
    [][(op' = "Init" /\ initialized[arg'])
         => /\ err' = "ErrRepositoryAlreadyInitialized"
            /\ gitDirs' = gitDirs /\ head' = head /\ objects' = objects]_vars

C2_Witness ==
    /\ op = "Init" /\ err = "ErrRepositoryAlreadyInitialized"
    /\ gitDirs = {".git", ".git/objects", ".git/refs"}
    /\ head = "ref: refs/heads/master\n"

(***************************************************************************)
(* C3: for a hash whose length is not 40, CatFile and ReadTree fail with   *)
(* ErrInvalidHash without a call on any file, and the files below .git are *)
(* unchanged.                                                              *)
(***************************************************************************)
C3_InvalidHashRejected ==
    [][(op' \in {"CatFile", "ReadTree"} /\ Len(arg') # 40)
         => /\ err' = "ErrInvalidHash"
            /\ fsTrace' = <<>>
            /\ gitDirs' = gitDirs /\ head' = head /\ objects' = objects]_vars

C3_Witness ==
    /\ op = "ReadTree" /\ Len(arg) = 41 /\ err = "ErrInvalidHash"
    /\ objects # NoObjects

(***************************************************************************)
(* C4: ReadTree on the hash WriteTree(dir) returned succeeds, and the set  *)
(* of names it returns is the set of direct child names of dir without the *)
(* .git directory.                                                         *)
(***************************************************************************)
C4_TreeRoundTrip ==
    [][(op = "WriteTree" /\ err = NoError /\ op' = "ReadTree" /\ arg' = ret)
         => (err' = NoError /\ NamesIn(ret') = ChildNames(arg))]_vars

(***************************************************************************)
(* C5: for a stored well-formed tree object, in whatever order its entries *)
(* are, ReadTree returns the names in ascending byte-wise order, joined by *)
(* newlines, with one trailing newline.                                    *)
(***************************************************************************)
C5_SortedListing ==
    \A es \in WellFormedLists :
        (/\ op = "ReadTree"
         /\ arg = TreeObject(Flatten(es)).hash
         /\ ObjectPath(arg) \in DOMAIN objects)
        => (err = NoError /\ ret = Join(SortNames(NamesOf(es))) \o <<LF>>)

(***************************************************************************)
(* C6: after a successful WriteTree(dir), every object the tree refers to  *)
(* (the blob of each file, the tree of each subdirectory, at every level)  *)
(* is in the object store.                                                 *)
(***************************************************************************)
C6_ReferencedObjectsStored ==
    (op = "WriteTree" /\ err = NoError) => Referenced(arg) \subseteq StoredHashes(objects)

(***************************************************************************)
(* C7: every entry of the tree payload WriteTree stores is the mode, a     *)
(* space, the name, a null byte and a hash field of exactly 20 bytes.      *)
(***************************************************************************)
C7_RawHashFields ==
    (op = "WriteTree" /\ err = NoError)
        => IsEntryTable(Payload(Stored(objects, ret)), 1, Recorded(arg))

(***************************************************************************)
(* C8: no call of Init, WriteBlob, WriteTree, CatFile or ReadTree removes  *)
(* a stored object or changes its decompressed content, and writing        *)
(* content that is already stored returns the hash it is stored under.     *)
(***************************************************************************)
C8_ObjectsImmutable ==
    [][op' # "cleanup"
         => /\ \A p \in DOMAIN objects :
                  /\ p \in DOMAIN objects'
                  /\ (objects'[p] = objects[p] \/ ZlibRead(objects'[p]) = ZlibRead(objects[p]))
            /\ (op' = "WriteBlob" /\ err' = NoError)
                  => \A p \in DOMAIN objects :
                        \/ (ret' = p[1] \o p[2] /\ DOMAIN objects' = DOMAIN objects)
                        \/ ZlibRead(objects[p]).data # BlobOf[arg'].blob
            /\ (op' = "WriteTree" /\ err' = NoError)
                  => \A p \in DOMAIN objects :
                        \/ (ret' = p[1] \o p[2] /\ DOMAIN objects' = DOMAIN objects)
                        \/ ZlibRead(objects[p]).data # TreeOf[arg'].output]_vars

C8_Witness ==
    /\ op = "WriteBlob" /\ err = NoError
    /\ Cardinality(DOMAIN objects) >= 2
    /\ \E c \in Contents : c # arg /\ BlobOf[c].hash \in StoredHashes(objects)
                                   /\ Stored(objects, BlobOf[c].hash) = BlobOf[c].blob

(***************************************************************************)
(* C9: Init on a fresh handle over a root without .git succeeds and leaves *)
(* .git with objects, refs and a HEAD file of "ref: refs/heads/master\n".  *)
(***************************************************************************)
C9_InitCreatesSkeleton ==
    [][(op' = "Init" /\ ~initialized[arg'] /\ gitDirs = {} /\ head = NoFile)
         => /\ err' = NoError
            /\ {".git", ".git/objects", ".git/refs"} \subseteq gitDirs'
            /\ head' = "ref: refs/heads/master\n"]_vars

C9_Witness ==
    /\ op = "Init" /\ err = NoError
    /\ gitDirs = {".git", ".git/objects", ".git/refs"}
    /\ head = "ref: refs/heads/master\n"
    /\ objects = NoObjects

(***************************************************************************)
(* C10: ReadTree returns an error whenever the tree payload ends inside an *)
(* entry: in the mode, in the name, or with 0 to 19 bytes of the hash.     *)
(***************************************************************************)
C10_TruncationRejected ==
    \A t \in TruncatedTables :
        (/\ op = "ReadTree"
         /\ arg = TreeObject(t).hash
         /\ ObjectPath(arg) \in DOMAIN objects)
        => err # NoError

(***************************************************************************)
(* C11: a handle whose initialized flag is set has its storage skeleton on *)
(* disk: .git/objects, .git/refs and .git/HEAD exist under its root.       *)
(***************************************************************************)
HasSkeleton == {".git/objects", ".git/refs"} \subseteq gitDirs /\ head # NoFile

\* as claimed: in every state reached by Init and cleanup calls
C11_InitializedHasSkeleton ==
    \A h \in Handles : initialized[h] => HasSkeleton

\* as amended: every call other than the cleanup function keeps it, from the
\* state after NewRepository on; the cleanup function removes .git and leaves
\* the flag set
C11_SkeletonUntilCleanup ==
    [][op' # "cleanup"
         => ((\A h \in Handles : initialized[h] => HasSkeleton)
               => (\A h \in Handles : initialized'[h]
                      => /\ {".git/objects", ".git/refs"} \subseteq gitDirs'
                         /\ head' # NoFile))]_vars

C11_Witness ==
    /\ op = "WriteBlob" /\ err = NoError
    /\ \A h \in Handles : initialized[h]
    /\ HasSkeleton
    /\ objects # NoObjects

====
